---- MODULE Spec2Model ----
(***************************************************************************)
(* A model of two parts of cryo's freeze crate:                            *)
(*   - datasets/logs.rs : the log extraction strategies and process_logs,  *)
(*     which grows a LogColumns accumulator from batches of logs;          *)
(*   - types/reports.rs : get_report_path, write_report and                *)
(*     serialize_summary, which persist a run's report.                    *)
(*                                                                         *)
(* TLC's integers are 32 bits wide, so a U64 / U256 quantity v is kept as  *)
(* the record [over, h16, l16] with                                        *)
(*        v = over * 2^32 + h16 * 2^16 + l16,                              *)
(* and a u32 as [h16, l16].  An Option is a sequence of length 0 or 1.     *)
(***************************************************************************)
EXTENDS Integers, Sequences, FiniteSets, Bags, TLC

VARIABLES
    \* ---- datasets/logs.rs
    schema,       \* the Table of Datatype::Logs: requested columns, optional decoder
    columns,      \* the LogColumns accumulator
    panicked,     \* NoPanic, or the message of the panic that ended the task
    response,     \* the Response of extract that transform has not consumed yet
    transformed,  \* history: the batch the last transform call was given
    fetched,      \* history: how many logs the transport has returned so far
    \* ---- types/reports.rs
    env,          \* ExecutionEnv: t_start, report_dir, cli_command, args
    sink,         \* FileOutput: output_dir
    summary,      \* FreezeSummary: completed, errored, skipped
    pending,      \* partitions of the job that have no outcome yet
    phase,        \* "running" until the final report is attempted, then "terminated"
    fs,           \* the file system: directories and files
    returned      \* history: every write_report call that returned Ok, with its path

logVars == <<schema, columns, panicked, response, transformed, fetched>>
reportVars == <<env, sink, summary, pending, phase, fs, returned>>
vars == <<schema, columns, panicked, response, transformed, fetched,
          env, sink, summary, pending, phase, fs, returned>>

\* ------------------------------------------------------------------ bounds

\* most logs in one Response
MaxBatch == 2
\* logs fetched for one accumulator, over all calls
MaxFetched == 2
\* most topics a fetched log carries (one more than the four slots)
MaxTopics == 5
\* partitions of one job
MaxPartitions == 3

\* ------------------------------------------------------------------ values

None == <<>>
Some(v) == <<v>>
IsSome(o) == o # <<>>
Unwrap(o) == o[1]

Min(a, b) == IF a < b THEN a ELSE b

NoPanic == "none"
OverflowPanic == "Integer overflow when casting to u32"
TopicsPanic == "invalid number of topics"

\* U64 / U256 quantities: 7, 65536 + 7 and 2^32 + 7
USmall == [over |-> 0, h16 |-> 0, l16 |-> 7]
UMid == [over |-> 0, h16 |-> 1, l16 |-> 7]
UBig == [over |-> 1, h16 |-> 0, l16 |-> 7]

\* H256 / H160 values, abbreviated to their first byte
Hash(b) == [bytes |-> <<b>>]

\* The event signature the schema's decoder matches on topic0
TransferSignature == Hash(1)

\* the first k topics of a Transfer log
TopicsOf(k) == [i \in 1..k |-> Hash(i)]

BaseLog ==
    [block_number |-> Some(USmall), transaction_hash |-> Some(Hash(20)),
     transaction_index |-> Some(USmall), log_index |-> Some(USmall),
     address |-> Hash(30), data |-> <<40>>, topics |-> <<>>]

\* The logs a transport may return: every number of topics, every required
\* field missing, every narrowed field too wide for 32 bits.
LogDomain ==
    {[BaseLog EXCEPT !.topics = TopicsOf(k)] : k \in 0..MaxTopics}
    \cup {[BaseLog EXCEPT !.block_number = None],
          [BaseLog EXCEPT !.transaction_hash = None],
          [BaseLog EXCEPT !.transaction_index = None],
          [BaseLog EXCEPT !.log_index = None],
          [BaseLog EXCEPT !.block_number = None, !.transaction_hash = None,
                          !.transaction_index = None, !.log_index = None],
          [BaseLog EXCEPT !.block_number = None, !.topics = TopicsOf(1),
                          !.data = <<41>>]}
    \cup {[BaseLog EXCEPT !.block_number = Some(UBig)],
          [BaseLog EXCEPT !.transaction_index = Some(UBig)],
          [BaseLog EXCEPT !.log_index = Some(UBig)]}
    \cup {[BaseLog EXCEPT !.block_number = Some(UMid), !.transaction_hash = Some(Hash(21)),
                          !.transaction_index = Some(UMid), !.log_index = Some(UMid),
                          !.address = Hash(31), !.data = <<42, 43>>,
                          !.topics = <<Hash(9), Hash(2)>>]}

\* ------------------------------------------------------------------ LogColumns

U32Columns == {"block_number", "transaction_index", "log_index"}
BinaryColumns == {"transaction_hash", "address", "data"}
TopicColumns == {"topic0", "topic1", "topic2", "topic3"}
FixedColumns == U32Columns \cup BinaryColumns \cup TopicColumns

\* #[derive(Default)]: every Vec empty, n_rows 0, no event column
LogColumnsDefault ==
    [n_rows |-> 0, block_number |-> <<>>, transaction_index |-> <<>>,
     log_index |-> <<>>, transaction_hash |-> <<>>, address |-> <<>>,
     topic0 |-> <<>>, topic1 |-> <<>>, topic2 |-> <<>>, topic3 |-> <<>>,
     data |-> <<>>, event_cols |-> [k \in {} |-> <<>>]]

\* ------------------------------------------------------------------ Schema

TransferDecoder == [signature |-> TransferSignature]

SchemaColumnSets ==
    {FixedColumns, {"block_number"}, {"transaction_hash", "topic0", "topic3", "data"}, {}}

Schemas ==
    {[columns |-> c, log_decoder |-> d] :
        c \in SchemaColumnSets, d \in {None, Some(TransferDecoder)}}

has_column(table, name) == name \in table.columns

\* ------------------------------------------------------------------ process_logs

\* The value of an expression: what it evaluates to, or the panic it raises.
Value(v) == [panic |-> NoPanic, val |-> v]
Raise(msg) == [panic |-> msg, val |-> None]

\* U64::as_u32 / U256::as_u32 (uint crate): the low 32 bits when the value fits
\* in 32 bits, "Integer overflow when casting to u32" otherwise.
as_u32(v) ==
    IF v.over > 0 THEN Raise(OverflowPanic)
    ELSE Value([h16 |-> v.h16, l16 |-> v.l16])

\* H256::as_bytes().to_vec(), Bytes::to_vec()
as_bytes(h) == h.bytes

\* a push that does not ask the schema
store_unconditional(table, st, name, value) ==
    IF st.panicked # NoPanic THEN st
    ELSE IF value.panic # NoPanic THEN [st EXCEPT !.panicked = value.panic]
    ELSE [st EXCEPT !.columns[name] = Append(@, value.val)]

\* store!(schema, columns, name, value): push the value when the schema has the
\* column; the value expression is evaluated in the taken branch only.
\* st is the task's state: its accumulator and whether it has panicked.
store(table, st, name, value) ==
    IF st.panicked # NoPanic THEN st
    ELSE IF has_column(table, name)
         THEN IF value.panic # NoPanic THEN [st EXCEPT !.panicked = value.panic]
              ELSE [st EXCEPT !.columns[name] = Append(@, value.val)]
         ELSE st

\* logs.rs:96-97: the four fields a log must carry to be stored
has_required(log) ==
    IsSome(log.block_number) /\ IsSome(log.transaction_hash)
        /\ IsSome(log.transaction_index) /\ IsSome(log.log_index)

\* logs.rs:108: for i in 0..4
TopicLoopEnd == 4

\* logs.rs:109-113: the value of slot i (i counts from 0, TLA+ sequences from 1)
topic_value(log, i) ==
    IF i < Len(log.topics) THEN Some(as_bytes(log.topics[i + 1])) ELSE None

\* logs.rs:114-120: match i { 0 => ..., 3 => ..., _ => panic!(..) }
topic_store(table, st, log, i) ==
    IF st.panicked # NoPanic THEN st
    ELSE CASE i = 0 -> store(table, st, "topic0", Value(topic_value(log, i)))
           [] i = 1 -> store(table, st, "topic1", Value(topic_value(log, i)))
           [] i = 2 -> store(table, st, "topic2", Value(topic_value(log, i)))
           [] i = 3 -> store(table, st, "topic3", Value(topic_value(log, i)))
           [] OTHER -> [st EXCEPT !.panicked = TopicsPanic]

\* logs.rs:108-121: the loop over the topic slots, from slot i on
RECURSIVE topic_loop_from(_, _, _, _, _)
topic_loop_from(table, st, log, i, end) ==
    IF i >= end THEN st
    ELSE topic_loop_from(table, topic_store(table, st, log, i), log, i + 1, end)

\* the loop over the slots the log fills only
topic_loop_present_only(table, st, log) ==
    topic_loop_from(table, st, log, 0, Min(Len(log.topics), TopicLoopEnd))
\* the loop as `for i in 0..=4`
topic_loop_one_more(table, st, log) == topic_loop_from(table, st, log, 0, TopicLoopEnd + 1)

\* logs.rs:108-121: for i in 0..4 { .. }
topic_loop(table, st, log) == topic_loop_from(table, st, log, 0, TopicLoopEnd)

\* the body with the address pushed whatever the schema says
store_row_address_unconditional(table, st, log) ==
    LET s0 == [st EXCEPT !.columns.n_rows = @ + 1]
        s1 == store(table, s0, "block_number", as_u32(Unwrap(log.block_number)))
        s2 == store(table, s1, "transaction_index", as_u32(Unwrap(log.transaction_index)))
        s3 == store(table, s2, "log_index", as_u32(Unwrap(log.log_index)))
        s4 == store(table, s3, "transaction_hash",
                    Value(as_bytes(Unwrap(log.transaction_hash))))
        s5 == store_unconditional(table, s4, "address", Value(as_bytes(log.address)))
        s6 == store(table, s5, "data", Value(log.data))
    IN  topic_loop(table, s6, log)

\* logs.rs:99-121: the body of the if-let, for a log that has the four fields
store_row(table, st, log) ==
    LET s0 == [st EXCEPT !.columns.n_rows = @ + 1]
        s1 == store(table, s0, "block_number", as_u32(Unwrap(log.block_number)))
        s2 == store(table, s1, "transaction_index", as_u32(Unwrap(log.transaction_index)))
        s3 == store(table, s2, "log_index", as_u32(Unwrap(log.log_index)))
        s4 == store(table, s3, "transaction_hash",
                    Value(as_bytes(Unwrap(log.transaction_hash))))
        s5 == store(table, s4, "address", Value(as_bytes(log.address)))
        s6 == store(table, s5, "data", Value(log.data))
    IN  topic_loop(table, s6, log)

\* the iteration with the row counted before the four fields are looked at
process_log_counting_dropped(table, st, log) ==
    IF st.panicked # NoPanic THEN st
    ELSE IF has_required(log) THEN store_row(table, st, log)
    ELSE [st EXCEPT !.columns.n_rows = @ + 1]

\* logs.rs:95-123: one iteration of the loop over the batch
process_log(table, st, log) ==
    IF st.panicked # NoPanic THEN st
    ELSE IF has_required(log) THEN store_row(table, st, log)
    ELSE st

\* logs.rs:95-123: for log in logs.iter() { .. }
RECURSIVE process_rows(_, _, _)
process_rows(table, st, logs) ==
    IF logs = <<>> THEN st
    ELSE process_rows(table, process_log(table, st, Head(logs)), Tail(logs))

\* LogDecoder::parse_log_from_event: for every log of the batch whose topic0 is
\* the event's signature, one value of "Transfer.value" (its data) and, when the
\* log has a second topic, one value of "Transfer.from".  A field with no value
\* is not a key of the result.
DecoderFields == {"Transfer.value", "Transfer.from"}
decoder_matches(decoder, log) ==
    Len(log.topics) >= 1 /\ log.topics[1] = decoder.signature
RECURSIVE decoded_values(_, _, _)
decoded_values(decoder, field, logs) ==
    IF logs = <<>> THEN <<>>
    ELSE LET log == Head(logs)
             here == IF ~decoder_matches(decoder, log) THEN <<>>
                     ELSE IF field = "Transfer.value" THEN <<log.data>>
                     ELSE IF Len(log.topics) >= 2 THEN <<as_bytes(log.topics[2])>>
                     ELSE <<>>
         IN here \o decoded_values(decoder, field, Tail(logs))
parse_log_from_event(decoder, logs) ==
    LET keys == {f \in DecoderFields : decoded_values(decoder, f, logs) # <<>>}
    IN [f \in keys |-> decoded_values(decoder, f, logs)]

\* logs.rs:129: columns.event_cols.entry(k).or_default().extend(v), for every
\* (k, v) of the decoder's result
extend_event_cols(event_cols, decoded) ==
    [k \in DOMAIN event_cols \cup DOMAIN decoded |->
        (IF k \in DOMAIN event_cols THEN event_cols[k] ELSE <<>>)
            \o (IF k \in DOMAIN decoded THEN decoded[k] ELSE <<>>)]

\* the decoder given the stored logs only
decode_into_stored_only(table, st, logs) ==
    IF st.panicked # NoPanic \/ ~IsSome(table.log_decoder) THEN st
    ELSE [st EXCEPT !.columns.event_cols =
            extend_event_cols(@, parse_log_from_event(Unwrap(table.log_decoder),
                                                      SelectSeq(logs, has_required)))]

\* logs.rs:125-131: add decoded event logs; the decoder is given `logs`, the
\* whole batch
decode_into(table, st, logs) ==
    IF st.panicked # NoPanic \/ ~IsSome(table.log_decoder) THEN st
    ELSE [st EXCEPT !.columns.event_cols =
            extend_event_cols(@, parse_log_from_event(Unwrap(table.log_decoder), logs))]

\* logs.rs:94-132
process_logs(logs, st, table) ==
    decode_into(table, process_rows(table, st, logs), logs)

\* ------------------------------------------------------------------ the collection task

\* a job that has not started: no summary, no file
ReportIdle ==
    /\ env = [t_start |-> [year |-> 2023, month |-> 9, day |-> 5, hour |-> 7,
                           minute |-> 3, second |-> 9, nanosecond |-> 0],
              report_dir |-> None, cli_command |-> None, args |-> None]
    /\ sink = [output_dir |-> <<>>]
    /\ summary = [completed |-> <<>>, errored |-> <<>>, skipped |-> <<>>]
    /\ pending = {}
    /\ phase = "terminated"
    /\ fs = [dirs |-> {}, files |-> [p \in {} |-> None]]
    /\ returned = {}

\* a collection task with nothing fetched
LogsIdle ==
    /\ schema = [columns |-> {}, log_decoder |-> None]
    /\ columns = LogColumnsDefault
    /\ panicked = NoPanic
    /\ response = None
    /\ transformed = None
    /\ fetched = 0

InitLogs ==
    /\ schema \in Schemas
    /\ columns = LogColumnsDefault
    /\ panicked = NoPanic
    /\ response = None
    /\ transformed = None
    /\ fetched = 0
    /\ ReportIdle

\* the batches of at most MaxBatch logs that leave the model's bounds kept
Batches(room) ==
    UNION {[1..n -> LogDomain] : n \in 0..Min(MaxBatch, room)}

\* CollectByBlock::extract (logs.rs:68-70): get_logs answers with a batch
ExtractByBlock ==
    /\ panicked = NoPanic /\ response = None
    /\ \E logs \in Batches(MaxFetched - fetched) :
          /\ response' = Some([via |-> "block", ok |-> TRUE, logs |-> logs])
          /\ fetched' = fetched + Len(logs)
    /\ transformed' = None
    /\ UNCHANGED <<schema, columns, panicked>>
    /\ UNCHANGED reportVars

\* CollectByTransaction::extract (logs.rs:83-85): get_transaction_logs answers
ExtractByTransaction ==
    /\ panicked = NoPanic /\ response = None
    /\ \E logs \in Batches(MaxFetched - fetched) :
          /\ response' = Some([via |-> "transaction", ok |-> TRUE, logs |-> logs])
          /\ fetched' = fetched + Len(logs)
    /\ transformed' = None
    /\ UNCHANGED <<schema, columns, panicked>>
    /\ UNCHANGED reportVars

\* either extract: the fetch fails, the CollectError goes to the caller and
\* transform is not called
ExtractFails ==
    /\ panicked = NoPanic /\ response = None
    /\ \E via \in {"block", "transaction"} :
          response' = Some([via |-> via, ok |-> FALSE, logs |-> <<>>])
    /\ transformed' = None
    /\ UNCHANGED <<schema, columns, panicked, fetched>>
    /\ UNCHANGED reportVars

Transform(via) ==
    /\ panicked = NoPanic /\ IsSome(response)
    /\ Unwrap(response).ok /\ Unwrap(response).via = via
    /\ LET logs == Unwrap(response).logs
           st == process_logs(logs, [columns |-> columns, panicked |-> NoPanic], schema)
       IN /\ columns' = st.columns
          /\ panicked' = st.panicked
          /\ transformed' = Some(logs)
    /\ response' = None
    /\ UNCHANGED <<schema, fetched>>
    /\ UNCHANGED reportVars

\* CollectByBlock::transform (logs.rs:72-74)
TransformByBlock == Transform("block")

\* CollectByTransaction::transform (logs.rs:87-90)
TransformByTransaction == Transform("transaction")

NextLogs ==
    \/ ExtractByBlock
    \/ ExtractByTransaction
    \/ ExtractFails
    \/ TransformByBlock
    \/ TransformByTransaction

SpecLogs == InitLogs /\ [][NextLogs]_vars

\* ------------------------------------------------------------------ reports.rs: paths

\* A path is its directory, a sequence of components, and its file name.  A
\* report's file name is a sequence of characters.
IncompletePrefix == <<"i", "n", "c", "o", "m", "p", "l", "e", "t", "e", "_">>
JsonSuffix == <<".", "j", "s", "o", "n">>

Digit(d) ==
    CASE d = 0 -> "0" [] d = 1 -> "1" [] d = 2 -> "2" [] d = 3 -> "3" [] d = 4 -> "4"
      [] d = 5 -> "5" [] d = 6 -> "6" [] d = 7 -> "7" [] d = 8 -> "8" [] d = 9 -> "9"

\* chrono's %m %d %H %M %S: two digits, zero padded; %Y: four digits
Pad2(n) == <<Digit((n \div 10) % 10), Digit(n % 10)>>
Pad4(n) == <<Digit((n \div 1000) % 10), Digit((n \div 100) % 10)>> \o Pad2(n)

\* t_start.format("%Y-%m-%d_%H-%M-%S"): t is the local calendar time of
\* env.t_start; its nanosecond is not printed
format_timestamp(t) ==
    Pad4(t.year) \o <<"-">> \o Pad2(t.month) \o <<"-">> \o Pad2(t.day) \o <<"_">>
        \o Pad2(t.hour) \o <<"-">> \o Pad2(t.minute) \o <<"-">> \o Pad2(t.second)

\* Path::join of a directory with a relative path of the given components
join_dir(dir, components) == dir \o components
\* Path::join of a directory with a file name
join_file(dir, name) == [dir |-> dir, name |-> name]

\* the directory with the override forgotten
report_dir_ignoring_override(e, s) == join_dir(s.output_dir, <<".cryo", "reports">>)
\* reports.rs:31-34
report_dir_of(e, s) ==
    IF IsSome(e.report_dir) THEN Unwrap(e.report_dir)
    ELSE join_dir(s.output_dir, <<".cryo", "reports">>)

\* the file name with the prefix forgotten
report_filename_always_plain(e, is_complete) == format_timestamp(e.t_start) \o JsonSuffix
\* reports.rs:39-45
report_filename(e, is_complete) ==
    LET timestamp == format_timestamp(e.t_start)
    IN IF is_complete THEN timestamp \o JsonSuffix
       ELSE IncompletePrefix \o (timestamp \o JsonSuffix)

\* every ancestor of a directory, and the directory
Ancestors(dir) == {SubSeq(dir, 1, n) : n \in 0..Len(dir)}

Ok(path) == [ok |-> TRUE, path |-> Some(path), err |-> ""]
Err(msg) == [ok |-> FALSE, path |-> None, err |-> msg]

\* reports.rs:25-49.  io says which of the call's file operations fail.
\* The result is the file system after the call and the call's Result.
get_report_path(e, s, is_complete, files, io) ==
    LET report_dir == report_dir_of(e, s)
    IN IF io = "no_dir"
       THEN [fs |-> files, result |-> Err("could not create report dir")]
       ELSE [fs |-> [files EXCEPT !.dirs = @ \cup Ancestors(report_dir)],
             result |-> Ok(join_file(report_dir, report_filename(e, is_complete)))]

\* ------------------------------------------------------------------ reports.rs: summary

Partitions == 1..MaxPartitions

\* the Query's datatypes; one output file per datatype and partition
Query == [datatypes |-> {"logs", "blocks"}]

\* FileOutput::get_paths(query, partition): datatype -> path
get_paths(s, query, partition) ==
    [dt \in query.datatypes |->
        join_file(s.output_dir, dt \o "__" \o Digit(partition))]

\* the orders in which a HashMap of the query's datatypes may be iterated
IterationOrders(query) ==
    {o \in [1..Cardinality(query.datatypes) -> query.datatypes] :
        \A i, j \in DOMAIN o : o[i] = o[j] => i = j}

\* the first value of the map only
paths_of_first_only(s, query, partition, order) ==
    <<get_paths(s, query, partition)[order[partition][1]]>>

\* sink.get_paths(query, partition).values().cloned().collect::<Vec<_>>():
\* the map's values in the order this map is iterated
paths_of(s, query, partition, order) ==
    [i \in DOMAIN order[partition] |-> get_paths(s, query, partition)[order[partition][i]]]

\* reports.rs:87-93: completed.iter().flat_map(..).collect()
RECURSIVE completed_paths_of(_, _, _, _)
completed_paths_of(completed, query, s, order) ==
    IF completed = <<>> THEN <<>>
    ELSE paths_of(s, query, Head(completed), order)
            \o completed_paths_of(Tail(completed), query, s, order)

\* the errored paths up to the first error without a partition
RECURSIVE errored_paths_until_none(_, _, _, _)
errored_paths_until_none(errored, query, s, order) ==
    IF errored = <<>> \/ ~IsSome(Head(errored)) THEN <<>>
    ELSE paths_of(s, query, Unwrap(Head(errored)), order)
            \o errored_paths_until_none(Tail(errored), query, s, order)

\* reports.rs:94-107: errored.iter().filter_map(..).flatten().collect()
RECURSIVE errored_paths_of(_, _, _, _)
errored_paths_of(errored, query, s, order) ==
    IF errored = <<>> THEN <<>>
    ELSE (IF IsSome(Head(errored))
          THEN paths_of(s, query, Unwrap(Head(errored)), order) ELSE <<>>)
            \o errored_paths_of(Tail(errored), query, s, order)

\* reports.rs:81-110
serialize_summary(sm, query, s, order) ==
    [completed_paths |-> completed_paths_of(sm.completed, query, s, order),
     errored_paths |-> errored_paths_of(sm.errored, query, s, order),
     n_skipped |-> Len(sm.skipped)]

\* reports.rs:112-118: CARGO_PKG_VERSION and GIT_DESCRIPTION are fixed by the build
get_cryo_version == "0.2.0" \o "__" \o "unknown"

\* reports.rs:70: the flag write_report gives get_report_path
is_complete_flag(freeze_summary) == IsSome(freeze_summary)

\* reports.rs:51-79.  The result is the file system after the call and the
\* call's Result.
write_report(e, query, s, freeze_summary, files, io, order) ==
    LET serialized_summary ==
            IF IsSome(freeze_summary)
            THEN Some(serialize_summary(Unwrap(freeze_summary), query, s, order))
            ELSE None
        report == [cryo_version |-> get_cryo_version, cli_command |-> e.cli_command,
                   args |-> e.args, results |-> serialized_summary]
        got == get_report_path(e, s, is_complete_flag(freeze_summary), files, io)
        path == Unwrap(got.result.path)
        put(content) ==
            [got.fs EXCEPT !.files =
                [p \in DOMAIN @ \cup {path} |-> IF p = path THEN content ELSE @[p]]]
    IN IF ~got.result.ok THEN got
       ELSE IF io = "no_file"
            THEN [fs |-> got.fs, result |-> Err("could not create report file")]
       ELSE IF io = "no_write"
            THEN [fs |-> put(None), result |-> Err("could not write report data")]
       ELSE [fs |-> put(Some(report)), result |-> Ok(path)]

\* ------------------------------------------------------------------ the job and its report

\* local calendar times of env.t_start
StartTimes ==
    {[year |-> 2023, month |-> 9, day |-> 5, hour |-> 7, minute |-> 3, second |-> 9,
      nanosecond |-> 50],
     [year |-> 2024, month |-> 12, day |-> 31, hour |-> 23, minute |-> 59, second |-> 58,
      nanosecond |-> 0]}

Envs ==
    {[t_start |-> t, report_dir |-> d, cli_command |-> Some(<<"cryo", "logs">>),
      args |-> Some("args")] :
        t \in StartTimes, d \in {None, Some(<<"custom">>)}}

IOOutcomes == {"ok", "no_dir", "no_file", "no_write"}

InitReport ==
    /\ env \in Envs
    /\ sink = [output_dir |-> <<"out">>]
    /\ summary = [completed |-> <<>>, errored |-> <<>>, skipped |-> <<>>]
    /\ pending = Partitions
    /\ phase = "running"
    /\ fs = [dirs |-> {}, files |-> [p \in {} |-> None]]
    /\ returned = {}
    /\ LogsIdle

\* the partitions whose paths serialize_summary asks the sink for
Resolved(sm) ==
    {sm.completed[i] : i \in DOMAIN sm.completed}
        \cup {Unwrap(sm.errored[i]) : i \in {j \in DOMAIN sm.errored : IsSome(sm.errored[j])}}

\* the iteration orders of the maps serialize_summary reads, one per resolved
\* partition; they show in the written file only, so one choice stands for
\* all when the call writes no report
OrdersSeen(sm, io) ==
    LET all == [Resolved(sm) -> IterationOrders(Query)]
    IN IF io = "ok" THEN all ELSE {CHOOSE o \in all : TRUE}

\* a partition's collection succeeded
PartitionCompleted ==
    /\ phase = "running"
    /\ \E p \in pending :
          /\ summary' = [summary EXCEPT !.completed = Append(@, p)]
          /\ pending' = pending \ {p}
    /\ UNCHANGED <<env, sink, phase, fs, returned>>
    /\ UNCHANGED logVars

\* a partition's collection failed
PartitionErrored ==
    /\ phase = "running"
    /\ \E p \in pending :
          /\ summary' = [summary EXCEPT !.errored = Append(@, Some(p))]
          /\ pending' = pending \ {p}
    /\ UNCHANGED <<env, sink, phase, fs, returned>>
    /\ UNCHANGED logVars

\* a failure before its partition is known; one is enough to tell it apart
ErroredWithoutPartition ==
    /\ phase = "running"
    /\ \A i \in DOMAIN summary.errored : IsSome(summary.errored[i])
    /\ summary' = [summary EXCEPT !.errored = Append(@, None)]
    /\ UNCHANGED <<env, sink, pending, phase, fs, returned>>
    /\ UNCHANGED logVars

\* a partition whose output exists already is skipped
PartitionSkipped ==
    /\ phase = "running"
    /\ \E p \in pending :
          /\ summary' = [summary EXCEPT !.skipped = Append(@, p)]
          /\ pending' = pending \ {p}
    /\ UNCHANGED <<env, sink, phase, fs, returned>>
    /\ UNCHANGED logVars

\* write_report(env, query, sink, None): the report of a job that has no
\* summary yet
WriteIncompleteReport ==
    /\ phase = "running"
    /\ \E io \in IOOutcomes :
          LET out == write_report(env, Query, sink, None, fs, io, <<>>)
          IN /\ fs' = out.fs
             /\ returned' = IF out.result.ok
                             THEN returned \cup {[summary_given |-> FALSE,
                                                  path |-> Unwrap(out.result.path)]}
                             ELSE returned
    /\ UNCHANGED <<env, sink, summary, pending, phase>>
    /\ UNCHANGED logVars

\* write_report(env, query, sink, Some(&summary)): the report of a job whose
\* partitions all have an outcome
WriteFinalReport ==
    /\ phase = "running" /\ pending = {}
    /\ \E io \in IOOutcomes : \E order \in OrdersSeen(summary, io) :
          LET out == write_report(env, Query, sink, Some(summary), fs, io, order)
          IN /\ fs' = out.fs
             /\ returned' = IF out.result.ok
                             THEN returned \cup {[summary_given |-> TRUE,
                                                  path |-> Unwrap(out.result.path)]}
                             ELSE returned
    /\ phase' = "terminated"
    /\ UNCHANGED <<env, sink, summary, pending>>
    /\ UNCHANGED logVars

NextReport ==
    \/ PartitionCompleted
    \/ PartitionErrored
    \/ ErroredWithoutPartition
    \/ PartitionSkipped
    \/ WriteIncompleteReport
    \/ WriteFinalReport

SpecReport == InitReport /\ [][NextReport]_vars

\* ==================================================================
\* Properties of process_logs, checked under SpecLogs
\* ==================================================================

Range(seq) == {seq[i] : i \in DOMAIN seq}

\* a log that carries block number, transaction hash, transaction index and
\* log index
Complete(log) ==
    /\ log.block_number # None /\ log.transaction_hash # None
    /\ log.transaction_index # None /\ log.log_index # None

\* a step in which transform consumes the fetched batch
TransformStep == IsSome(response) /\ Unwrap(response).ok /\ response' = None
\* the batch that step is given, and the logs of it that are stored
GivenLogs == Unwrap(response).logs
StoredLogs == SelectSeq(GivenLogs, Complete)

\* C1: whenever transform has returned, every fixed column the schema has is
\* exactly n_rows long.
C1_ColumnsHaveNRows ==
    panicked = NoPanic =>
        \A c \in FixedColumns :
            has_column(schema, c) => Len(columns[c]) = columns.n_rows

\* two rows stored over the calls, the last call given a batch, every column kept
C1_Witness ==
    /\ panicked = NoPanic /\ IsSome(transformed)
    /\ schema.columns = FixedColumns
    /\ columns.n_rows >= 2 /\ Len(columns.topic3) >= 2

\* what C2 asks of one step
C2_Step ==
    TransformStep =>
        /\ Len(StoredLogs) = 0 =>
              /\ panicked' = NoPanic
              /\ \A c \in FixedColumns \cup {"n_rows"} : columns'[c] = columns[c]
        /\ panicked' = NoPanic =>
              /\ columns'.n_rows = columns.n_rows + Len(StoredLogs)
              /\ \A c \in FixedColumns :
                    Len(columns'[c]) =
                        Len(columns[c]) + (IF has_column(schema, c) THEN Len(StoredLogs) ELSE 0)

\* C2: a call of transform given only logs that miss one of the four fields
\* does not panic and leaves n_rows and every fixed column as they were; a
\* call that returns has added one to n_rows, and one entry to every fixed
\* column of the schema, for each log of its batch that has the four fields,
\* and nothing for the others.
C2_DroppedLogsLeaveNoTrace == [][C2_Step]_vars

\* the last batch held a log without its four fields and a log with them
C2_Witness ==
    /\ panicked = NoPanic /\ IsSome(transformed)
    /\ \E i, j \in DOMAIN Unwrap(transformed) :
          ~Complete(Unwrap(transformed)[i]) /\ Complete(Unwrap(transformed)[j])
    /\ columns.n_rows = 1 /\ schema.columns = FixedColumns

\* the entry slot i gets from a log: its topic i when it has one
SlotEntry(log, i) ==
    IF i < Min(Len(log.topics), 4) THEN Some(log.topics[i + 1].bytes) ELSE None
FirstFourTopics(log) == [log EXCEPT !.topics = SubSeq(@, 1, Min(Len(@), 4))]
TopicColumn(i) == CASE i = 0 -> "topic0" [] i = 1 -> "topic1" [] i = 2 -> "topic2"
                    [] i = 3 -> "topic3"

\* what C3 asks of one step
C3_Step ==
    /\ panicked' # TopicsPanic
    /\ (TransformStep /\ panicked' = NoPanic) =>
          \A j \in DOMAIN StoredLogs, i \in 0..3 :
              has_column(schema, TopicColumn(i)) =>
                  /\ columns'[TopicColumn(i)][Len(columns[TopicColumn(i)]) + j]
                        = SlotEntry(StoredLogs[j], i)
                  /\ topic_value(StoredLogs[j], i)
                        = topic_value(FirstFourTopics(StoredLogs[j]), i)

\* C3: a call of transform that returns has appended, for its j-th stored log
\* and every slot i of the schema, the log's topic i when i < min(k, 4) and an
\* absent marker otherwise; the slot entries of a log are those of the log cut
\* to its first four topics; the "invalid number of topics" panic never happens.
C3_TopicSlots == [][C3_Step]_vars

\* a stored log of the last batch had more than four topics
C3_Witness ==
    /\ panicked = NoPanic /\ IsSome(transformed)
    /\ TopicColumns \subseteq schema.columns
    /\ \E j \in DOMAIN Unwrap(transformed) :
          Complete(Unwrap(transformed)[j]) /\ Len(Unwrap(transformed)[j].topics) > 4
    /\ columns.n_rows >= 1
    /\ IsSome(columns.topic3[Len(columns.topic3)])

\* what C4 asks of one step
C4_Step ==
    /\ \A c \in FixedColumns \ schema.columns : columns'[c] = <<>>
    /\ (TransformStep /\ panicked' = NoPanic) =>
          columns'.n_rows = columns.n_rows + Len(StoredLogs)

\* C4: a fixed column the schema does not have is empty after every step, and
\* a call of transform that returns has added the number of its stored logs
\* to n_rows whatever the schema.
C4_UnrequestedColumnsStayEmpty == [][C4_Step]_vars

\* two rows counted under a schema of block_number alone
C4_Witness ==
    /\ panicked = NoPanic /\ IsSome(transformed)
    /\ schema.columns = {"block_number"}
    /\ columns.n_rows = 2 /\ Len(columns.block_number) = 2
    /\ columns.address = <<>> /\ columns.topic0 = <<>>

\* what C8 asks of one step
C8_Step ==
    (TransformStep /\ panicked' = NoPanic /\ IsSome(schema.log_decoder)) =>
        LET decoded == parse_log_from_event(Unwrap(schema.log_decoder), GivenLogs)
            old(k) == IF k \in DOMAIN columns.event_cols THEN columns.event_cols[k] ELSE <<>>
        IN /\ DOMAIN columns'.event_cols = DOMAIN columns.event_cols \cup DOMAIN decoded
           /\ \A k \in DOMAIN columns'.event_cols :
                 /\ k \in DOMAIN decoded =>
                       /\ columns'.event_cols[k] = old(k) \o decoded[k]
                       /\ Len(columns'.event_cols[k]) = Len(old(k)) + Len(decoded[k])
                 /\ k \notin DOMAIN decoded => columns'.event_cols[k] = old(k)

\* C8: with a decoder in the schema, a call of transform that returns leaves
\* every dynamic column as it was followed by the values the decoder gives, for
\* that field, on the whole batch (dropped logs too), and has a dynamic column
\* for every field that has values, so two calls add up in arrival order.
C8_DecodedColumnsExtend == [][C8_Step]_vars

\* two calls of one log each: the first log was dropped and decoded, the
\* second stored and decoded
C8_Witness ==
    /\ panicked = NoPanic /\ IsSome(transformed) /\ Len(Unwrap(transformed)) = 1
    /\ "Transfer.value" \in DOMAIN columns.event_cols
    /\ columns.event_cols["Transfer.value"] = <<<<41>>, <<40>>>>
    /\ columns.n_rows = 1

\* the low 32 bits of a quantity
Low32(v) == [h16 |-> v.h16, l16 |-> v.l16]

\* C9: narrowing never panics, and the entries the last call of transform
\* appended to block_number, transaction_index and log_index are its stored
\* logs' values modulo 2^32.
C9_NarrowingTruncates ==
    /\ panicked # OverflowPanic
    /\ IsSome(transformed) =>
          LET stored == SelectSeq(Unwrap(transformed), Complete)
          IN \A c \in U32Columns \cap schema.columns :
                /\ Len(columns[c]) >= Len(stored)
                /\ \A j \in DOMAIN stored :
                      columns[c][Len(columns[c]) - Len(stored) + j]
                          = Low32(Unwrap(stored[j][c]))

\* ==================================================================
\* Properties of the report, checked under SpecReport
\* ==================================================================

\* the summaries serialized into the report files
WrittenSummaries ==
    {Unwrap(Unwrap(fs.files[p]).results) :
        p \in {q \in DOMAIN fs.files :
                  IsSome(fs.files[q]) /\ IsSome(Unwrap(fs.files[q]).results)}}

\* the output paths of a partition, in no order
OutputPaths(partition) == Range(get_paths(sink, Query, partition))
PathsPerPartition == Cardinality(Query.datatypes)
\* the k-th block of a flattened list of paths
Block(paths, k) ==
    {paths[(k - 1) * PathsPerPartition + j] : j \in 1..PathsPerPartition}
KnownErrored == SelectSeq(summary.errored, IsSome)

\* C5: in a serialized summary completed_paths is, partition by partition in
\* the order of completed, the output paths of each completed partition;
\* errored_paths is the same for the errored entries that carry a partition,
\* an entry without one adding nothing; n_skipped is the number of skipped
\* partitions, and no path of a skipped partition is listed.
C5_SerializedSummary ==
    \A r \in WrittenSummaries :
        /\ Len(r.completed_paths) = PathsPerPartition * Len(summary.completed)
        /\ \A k \in DOMAIN summary.completed :
              Block(r.completed_paths, k) = OutputPaths(summary.completed[k])
        /\ Len(r.errored_paths) = PathsPerPartition * Len(KnownErrored)
        /\ \A k \in DOMAIN KnownErrored :
              Block(r.errored_paths, k) = OutputPaths(Unwrap(KnownErrored[k]))
        /\ r.n_skipped = Len(summary.skipped)
        /\ \A k \in DOMAIN summary.skipped :
              OutputPaths(summary.skipped[k])
                  \cap (Range(r.completed_paths) \cup Range(r.errored_paths)) = {}

\* a written summary of a completed partition, an error without a partition
\* followed by an errored partition, and a skipped partition
C5_Witness ==
    /\ WrittenSummaries # {}
    /\ Len(summary.completed) >= 1 /\ Len(summary.skipped) >= 1
    /\ Len(summary.errored) = 2
    /\ ~IsSome(summary.errored[1]) /\ IsSome(summary.errored[2])

StartsWith(str, prefix) ==
    Len(str) >= Len(prefix) /\ SubSeq(str, 1, Len(prefix)) = prefix

\* C6: a report written without a summary is at a file name that starts with
\* "incomplete_" and a report written with one is not; the two are at distinct
\* paths; and a report that was written is still at its path, the one without
\* a summary holding no results and the one with a summary holding them.
C6_IncompletePrefix ==
    /\ \A r \in returned :
          /\ StartsWith(r.path.name, IncompletePrefix) <=> ~r.summary_given
          /\ r.path \in DOMAIN fs.files
          /\ IsSome(fs.files[r.path]) =>
                (IsSome(Unwrap(fs.files[r.path]).results) <=> r.summary_given)
    /\ \A r1, r2 \in returned :
          r1.summary_given # r2.summary_given => r1.path # r2.path

\* both reports were written, and both files hold a report
C6_Witness ==
    /\ \E r1, r2 \in returned : ~r1.summary_given /\ r2.summary_given
    /\ \A r \in returned : IsSome(fs.files[r.path])

DigitValue(c) ==
    CASE c = "0" -> 0 [] c = "1" -> 1 [] c = "2" -> 2 [] c = "3" -> 3 [] c = "4" -> 4
      [] c = "5" -> 5 [] c = "6" -> 6 [] c = "7" -> 7 [] c = "8" -> 8 [] c = "9" -> 9
      [] OTHER -> -1
IsNumber(str) == \A i \in DOMAIN str : DigitValue(str[i]) >= 0
RECURSIVE NumberOf(_)
NumberOf(str) ==
    IF str = <<>> THEN 0
    ELSE 10 * NumberOf(SubSeq(str, 1, Len(str) - 1)) + DigitValue(str[Len(str)])

\* str is YYYY-MM-DD_HH-MM-SS for the time t, to the second
IsTimestampOf(str, t) ==
    /\ Len(str) = 19
    /\ str[5] = "-" /\ str[8] = "-" /\ str[11] = "_" /\ str[14] = "-" /\ str[17] = "-"
    /\ \A part \in {<<1, 4>>, <<6, 7>>, <<9, 10>>, <<12, 13>>, <<15, 16>>, <<18, 19>>} :
          IsNumber(SubSeq(str, part[1], part[2]))
    /\ NumberOf(SubSeq(str, 1, 4)) = t.year
    /\ NumberOf(SubSeq(str, 6, 7)) = t.month
    /\ NumberOf(SubSeq(str, 9, 10)) = t.day
    /\ NumberOf(SubSeq(str, 12, 13)) = t.hour
    /\ NumberOf(SubSeq(str, 15, 16)) = t.minute
    /\ NumberOf(SubSeq(str, 18, 19)) = t.second

\* C7: the calls that were given the same completion flag all returned one
\* path; a returned path lies in the environment's report directory when it
\* has one and in <output_dir>/.cryo/reports otherwise, and its file name is
\* "incomplete_" for an incomplete report, then the start time to the second,
\* then ".json".
C7_ReportPath ==
    /\ \A r1, r2 \in returned :
          r1.summary_given = r2.summary_given => r1.path = r2.path
    /\ \A r \in returned :
          LET lead == IF r.summary_given THEN 0 ELSE Len(IncompletePrefix)
              name == r.path.name
          IN /\ r.path.dir = (IF env.report_dir # None THEN env.report_dir[1]
                               ELSE sink.output_dir \o <<".cryo", "reports">>)
             /\ Len(name) = lead + 19 + Len(JsonSuffix)
             /\ SubSeq(name, 1, lead) = (IF r.summary_given THEN <<>> ELSE IncompletePrefix)
             /\ IsTimestampOf(SubSeq(name, lead + 1, lead + 19), env.t_start)
             /\ SubSeq(name, lead + 20, Len(name)) = JsonSuffix

\* the incomplete report was written, and a later call that failed while
\* writing was given the same path: it emptied the same file
C7_Witness ==
    /\ env.report_dir # None
    /\ \E r \in returned : ~r.summary_given /\ fs.files[r.path] = None

\* the number of times x occurs in a list
Occurrences(seq, x) == Cardinality({i \in DOMAIN seq : seq[i] = x})

\* C10: a serialized summary depends on the outcomes only, not on the order
\* they were recorded in: every path of every completed partition occurs once
\* in completed_paths and nothing else does, the same for the errored
\* partitions and errored_paths, n_skipped is the number of partitions
\* skipped; and every partition is completed, errored, skipped or pending, and
\* only one of them, once.
C10_OrderIndependent ==
    LET completed == Range(summary.completed)
        errored == {Unwrap(o) : o \in Range(summary.errored) \ {None}}
        skipped == Range(summary.skipped)
    IN /\ \A r \in WrittenSummaries :
             /\ Range(r.completed_paths) = UNION {OutputPaths(q) : q \in completed}
             /\ \A x \in Range(r.completed_paths) : Occurrences(r.completed_paths, x) = 1
             /\ Range(r.errored_paths) = UNION {OutputPaths(q) : q \in errored}
             /\ \A x \in Range(r.errored_paths) : Occurrences(r.errored_paths, x) = 1
             /\ r.n_skipped = Cardinality(skipped)
       /\ completed \cup errored \cup skipped \cup pending = Partitions
       /\ completed \cap errored = {} /\ completed \cap skipped = {}
       /\ errored \cap skipped = {}
       /\ pending \cap (completed \cup errored \cup skipped) = {}
       /\ Cardinality(completed) = Len(summary.completed)
       /\ Cardinality(errored) = Len(KnownErrored)
       /\ Cardinality(skipped) = Len(summary.skipped)

\* a written summary whose partitions completed in the order 2, 1
C10_Witness ==
    /\ WrittenSummaries # {}
    /\ Len(summary.completed) >= 2
    /\ summary.completed[1] > summary.completed[2]
    /\ Len(KnownErrored) >= 1

====
